---- MODULE Spec2Model ----
(***************************************************************************)
(* Model of klippy/extras/gcode_encoder.py: class GCodeEncoder.            *)
(*                                                                         *)
(* Time is counted in ticks of 0.5 s, so LONG_CLICK_DURATION (1.500 s) is  *)
(* 3 ticks and encoder_fast_rate (a configured float above 0) is 1 or 2    *)
(* ticks.  The reactor, the buttons driver, the template store    *)
(* and the gcode executor are collaborators outside this file: edges and   *)
(* detents arrive with eventtime = now, a due timer fires before time      *)
(* advances and before any later driver edge, and gcode.run_script may     *)
(* suspend its greenlet so that other callbacks run while it is in flight. *)
(***************************************************************************)
EXTENDS Integers, Sequences, FiniteSets, TLC

\* ---------------------------------------------------------------- bounds
MaxTime == 3
MaxEvents == 3

\* ------------------------------------------------------------- constants
LONG_CLICK_DURATION == 3
NEVER == 9999

\* ------------------------------------------------------------ the config
GcodeOptions == {"click_gcode", "double_click_gcode", "long_click_gcode",
                 "release_gcode", "up_gcode", "fast_up_gcode", "down_gcode",
                 "fast_down_gcode"}

Cfg(pins, click, rate, opts) ==
    [encoder_pins |-> pins, click_pin |-> click,
     encoder_fast_rate |-> rate, options |-> opts]

NoPins == [set |-> FALSE, value |-> <<>>]
Pins(t) == [set |-> TRUE, value |-> t]

\* The configurations explored: encoder and button with every script, with
\* some scripts and with none; encoder alone; button alone; and the two
\* malformed encoder_pins.
Configs ==
    { Cfg(Pins(<<"a", ",", " ", "b">>), TRUE, 1, GcodeOptions),
      Cfg(Pins(<<"a", ",", " ", "b">>), TRUE, 2,
          {"click_gcode", "up_gcode", "fast_down_gcode"}),
      Cfg(Pins(<<"a", ",", " ", "b">>), TRUE, 1, {}),
      Cfg(Pins(<<"a", ",", " ", "b">>), FALSE, 2, GcodeOptions),
      Cfg(NoPins, TRUE, 1, GcodeOptions),
      Cfg(NoPins, FALSE, 2, {}),
      Cfg(Pins(<<"a">>), TRUE, 1, GcodeOptions),
      Cfg(Pins(<<"a", ",", "b", ",", "c">>), TRUE, 2, {}) }

VARIABLES
    phase,                       \* "config", "ready", "config_error"
    config,                      \* the config section handed to __init__
    registered,                  \* callbacks registered with the buttons driver
    encoder_fast_rate,
    last_encoder_cw_eventtime,
    last_encoder_ccw_eventtime,
    is_short_click,
    click_timer,                 \* waketime of the reactor timer
    gcode_queue,
    scripts,                     \* self._scripts
    pending,                     \* dispatch_gcode callbacks registered, not started
    drains,                      \* running dispatch_gcode greenlets
    now,                         \* reactor clock
    button,                      \* pin level last reported by the driver
    nevents,                     \* driver events delivered so far
    key,                         \* key handed to key_event by the last step
    cycle,                       \* click/long_click emitted since the last press edge
    press_time,
    release_time,
    cw_log,                      \* timestamps of the last two clockwise detents
    ccw_log,
    enqueued,                    \* every script appended by queue_gcode
    dispatched                   \* every entry taken up by dispatch_gcode

vars == <<phase, config, registered, encoder_fast_rate,
          last_encoder_cw_eventtime, last_encoder_ccw_eventtime,
          is_short_click, click_timer, gcode_queue, scripts, pending, drains,
          now, button, nevents, key, cycle, press_time, release_time,
          cw_log, ccw_log, enqueued, dispatched>>

classifierVars == <<encoder_fast_rate, last_encoder_cw_eventtime,
                    last_encoder_ccw_eventtime, is_short_click, click_timer>>
queueVars == <<gcode_queue, pending, enqueued>>
ghostVars == <<cycle, press_time, release_time, cw_log, ccw_log>>
setupVars == <<phase, config, registered, scripts>>

\* ---------------------------------------------------------------- helpers
RECURSIVE split(_, _)
split(s, sep) ==
    IF \A i \in 1..Len(s) : s[i] # sep
    THEN <<s>>
    ELSE LET i == CHOOSE j \in 1..Len(s) :
                      s[j] = sep /\ \A k \in 1..(j - 1) : s[k] # sep
         IN <<SubSeq(s, 1, i - 1)>> \o split(SubSeq(s, i + 1, Len(s)), sep)

RECURSIVE strip(_)
strip(s) ==
    IF s = <<>> THEN s
    ELSE IF Head(s) = " " THEN strip(Tail(s))
    ELSE IF s[Len(s)] = " " THEN strip(SubSeq(s, 1, Len(s) - 1))
    ELSE s

\* gcode_macro.load_template(config, option, default): the template text.
load_template(cfg, option, default) ==
    IF option \in cfg.options THEN option ELSE default

ScriptKeys == {"click", "double_click", "long_click", "release_template",
               "up", "fast_up", "down", "fast_down"}

OptionOf(k) == IF k = "release_template" THEN "release_gcode"
               ELSE IF k = "click" THEN "click_gcode"
               ELSE IF k = "double_click" THEN "double_click_gcode"
               ELSE IF k = "long_click" THEN "long_click_gcode"
               ELSE IF k = "up" THEN "up_gcode"
               ELSE IF k = "fast_up" THEN "fast_up_gcode"
               ELSE IF k = "down" THEN "down_gcode"
               ELSE "fast_down_gcode"

Last2(log, t) == IF log = <<>> THEN <<t>> ELSE <<log[Len(log)], t>>

CpuFree == \A i \in DOMAIN drains : drains[i].pc # "while"

TimerDue == click_timer # NEVER /\ now >= click_timer

RemoveAt(s, i) == SubSeq(s, 1, i - 1) \o SubSeq(s, i + 1, Len(s))

\* ------------------------------------------------------------------ Init
Init ==
    /\ phase = "config"
    /\ config \in Configs
    /\ registered = {}
    /\ encoder_fast_rate = 0
    /\ last_encoder_cw_eventtime = 0
    /\ last_encoder_ccw_eventtime = 0
    /\ is_short_click = FALSE
    /\ click_timer = NEVER
    /\ gcode_queue = <<>>
    /\ scripts = [k \in ScriptKeys |-> ""]
    /\ pending = 0
    /\ drains = <<>>
    /\ now = 0
    /\ button = 0
    /\ nevents = 0
    /\ key = "none"
    /\ cycle = <<>>
    /\ press_time = -1
    /\ release_time = -1
    /\ cw_log = <<>>
    /\ ccw_log = <<>>
    /\ enqueued = <<>>
    /\ dispatched = <<>>

\* -------------------------------------------------------------- __init__
\* The pins handed to register_rotary_encoder.
encoder_pin_pair(cfg) ==
    LET parts == split(cfg.encoder_pins.value, ",")
    IN <<strip(parts[1]), strip(parts[2])>>

\* `pin1, pin2 = encoder_pins.split(',')` raises unless there are two parts.
encoder_pins_unparsable(cfg) ==
    cfg.encoder_pins.set /\ Len(split(cfg.encoder_pins.value, ",")) # 2

\* register_rotary_encoder(pin1.strip(), pin2.strip(), cw, ccw, steps)
encoder_registration(cfg) ==
    IF cfg.encoder_pins.set
    THEN {[kind |-> "rotary_encoder", pins |-> encoder_pin_pair(cfg)]}
    ELSE {}

\* register_button(config, 'click_pin', self.click_callback)
button_registration(cfg) ==
    IF cfg.click_pin
    THEN {[kind |-> "buttons", pins |-> <<"click_pin">>]}
    ELSE {}

HasCallback(kind) == \E r \in registered : r.kind = kind

GCodeEncoder_init_early_button ==
    /\ phase = "config"
    /\ IF encoder_pins_unparsable(config)
       THEN /\ phase' = "config_error"
            /\ registered' = button_registration(config)
            /\ UNCHANGED <<encoder_fast_rate, scripts>>
       ELSE /\ phase' = "ready"
            /\ registered' = encoder_registration(config)
                                 \cup button_registration(config)
            /\ encoder_fast_rate' = config.encoder_fast_rate
            /\ scripts' = [k \in ScriptKeys |->
                              load_template(config, OptionOf(k), "")]
    /\ key' = "none"
    /\ UNCHANGED <<config, last_encoder_cw_eventtime,
                   last_encoder_ccw_eventtime, is_short_click, click_timer,
                   drains, now, button, nevents, dispatched>>
    /\ UNCHANGED queueVars
    /\ UNCHANGED ghostVars

GCodeEncoder_init ==
    /\ phase = "config"
    /\ IF encoder_pins_unparsable(config)
       THEN \* raise config.error("Unable to parse encoder_pins")
            /\ phase' = "config_error"
            /\ registered' = {}
            /\ UNCHANGED <<encoder_fast_rate, scripts>>
       ELSE /\ phase' = "ready"
            /\ registered' = encoder_registration(config)
                                 \cup button_registration(config)
            /\ encoder_fast_rate' = config.encoder_fast_rate
            /\ scripts' = [k \in ScriptKeys |->
                              load_template(config, OptionOf(k), "")]
    /\ key' = "none"
    /\ UNCHANGED <<config, last_encoder_cw_eventtime,
                   last_encoder_ccw_eventtime, is_short_click, click_timer,
                   drains, now, button, nevents, dispatched>>
    /\ UNCHANGED queueVars
    /\ UNCHANGED ghostVars

\* ----------------------------------------------------------- queue_gcode
queue_gcode_always_register(script) ==
    IF script = ""
    THEN UNCHANGED queueVars
    ELSE /\ pending' = pending + 1
         /\ gcode_queue' = Append(gcode_queue, script)
         /\ enqueued' = Append(enqueued, script)

queue_gcode_no_empty_check(script) ==
    /\ pending' = IF gcode_queue = <<>> THEN pending + 1 ELSE pending
    /\ gcode_queue' = Append(gcode_queue, script)
    /\ enqueued' = Append(enqueued, script)

queue_gcode_register_when_nonempty(script) ==
    IF script = ""
    THEN UNCHANGED queueVars
    ELSE /\ pending' = IF gcode_queue # <<>> THEN pending + 1 ELSE pending
         /\ gcode_queue' = Append(gcode_queue, script)
         /\ enqueued' = Append(enqueued, script)

queue_gcode(script) ==
    IF script = ""
    THEN UNCHANGED queueVars
    ELSE /\ pending' = IF gcode_queue = <<>> THEN pending + 1 ELSE pending
         /\ gcode_queue' = Append(gcode_queue, script)
         /\ enqueued' = Append(enqueued, script)

\* ------------------------------------------------------------- key_event
key_event_wrong_key(k) ==
    /\ key' = k
    /\ IF k = "click" THEN queue_gcode(scripts[k])
       ELSE IF k = "double_click" THEN queue_gcode(scripts[k])
       ELSE IF k = "long_click" THEN queue_gcode(scripts["click"])
       ELSE IF k = "up" THEN queue_gcode(scripts[k])
       ELSE IF k = "fast_up" THEN queue_gcode(scripts[k])
       ELSE IF k = "down" THEN queue_gcode(scripts[k])
       ELSE IF k = "fast_down" THEN queue_gcode(scripts[k])
       ELSE UNCHANGED queueVars

key_event(k) ==
    /\ key' = k
    /\ IF k = "click" THEN queue_gcode(scripts[k])
       ELSE IF k = "double_click" THEN queue_gcode(scripts[k])
       ELSE IF k = "long_click" THEN queue_gcode(scripts[k])
       ELSE IF k = "up" THEN queue_gcode(scripts[k])
       ELSE IF k = "fast_up" THEN queue_gcode(scripts[k])
       ELSE IF k = "down" THEN queue_gcode(scripts[k])
       ELSE IF k = "fast_down" THEN queue_gcode(scripts[k])
       ELSE UNCHANGED queueVars

\* ------------------------------------------------ rotary encoder callbacks
fast_rate_inverted(eventtime, last, rate) == (eventtime - last) >= rate

fast_rate_strict(eventtime, last, rate) == (eventtime - last) < rate

fast_rate(eventtime, last, rate) == (eventtime - last) <= rate

\* The timestamp kept after a detent.
next_eventtime_if_slow(eventtime, last, rate) ==
    IF fast_rate(eventtime, last, rate) THEN last ELSE eventtime

next_eventtime(eventtime, last, rate) == eventtime

\* The script run from the callback instead of being queued.
encoder_cw_callback_run_inline(eventtime) ==
    /\ HasCallback("rotary_encoder")
    /\ CpuFree /\ nevents < MaxEvents
    /\ nevents' = nevents + 1
    /\ last_encoder_cw_eventtime' =
           next_eventtime(eventtime, last_encoder_cw_eventtime, encoder_fast_rate)
    /\ key' = IF fast_rate(eventtime, last_encoder_cw_eventtime, encoder_fast_rate)
              THEN "fast_up" ELSE "up"
    /\ dispatched' = IF scripts[key'] = "" THEN dispatched
                     ELSE Append(dispatched,
                                 [script |-> scripts[key'], result |-> "ok"])
    /\ cw_log' = Last2(cw_log, eventtime)
    /\ UNCHANGED <<encoder_fast_rate, last_encoder_ccw_eventtime,
                   is_short_click, click_timer, drains, now, button,
                   cycle, press_time, release_time, ccw_log>>
    /\ UNCHANGED queueVars
    /\ UNCHANGED setupVars

encoder_cw_callback_cross(eventtime) ==
    /\ HasCallback("rotary_encoder")
    /\ CpuFree /\ nevents < MaxEvents
    /\ nevents' = nevents + 1
    /\ last_encoder_ccw_eventtime' =
           next_eventtime(eventtime, last_encoder_ccw_eventtime, encoder_fast_rate)
    /\ IF fast_rate(eventtime, last_encoder_ccw_eventtime, encoder_fast_rate)
       THEN key_event("fast_up")
       ELSE key_event("up")
    /\ cw_log' = Last2(cw_log, eventtime)
    /\ UNCHANGED <<encoder_fast_rate, last_encoder_cw_eventtime,
                   is_short_click, click_timer, drains, now, button,
                   dispatched, cycle, press_time, release_time, ccw_log>>
    /\ UNCHANGED setupVars

encoder_cw_callback(eventtime) ==
    /\ HasCallback("rotary_encoder")
    /\ CpuFree /\ nevents < MaxEvents
    /\ nevents' = nevents + 1
    /\ last_encoder_cw_eventtime' =
           next_eventtime(eventtime, last_encoder_cw_eventtime, encoder_fast_rate)
    /\ IF fast_rate(eventtime, last_encoder_cw_eventtime, encoder_fast_rate)
       THEN key_event("fast_up")
       ELSE key_event("up")
    /\ cw_log' = Last2(cw_log, eventtime)
    /\ UNCHANGED <<encoder_fast_rate, last_encoder_ccw_eventtime,
                   is_short_click, click_timer, drains, now, button,
                   dispatched, cycle, press_time, release_time, ccw_log>>
    /\ UNCHANGED setupVars

encoder_ccw_callback(eventtime) ==
    /\ HasCallback("rotary_encoder")
    /\ CpuFree /\ nevents < MaxEvents
    /\ nevents' = nevents + 1
    /\ last_encoder_ccw_eventtime' =
           next_eventtime(eventtime, last_encoder_ccw_eventtime, encoder_fast_rate)
    /\ IF fast_rate(eventtime, last_encoder_ccw_eventtime, encoder_fast_rate)
       THEN key_event("fast_down")
       ELSE key_event("down")
    /\ ccw_log' = Last2(ccw_log, eventtime)
    /\ UNCHANGED <<encoder_fast_rate, last_encoder_cw_eventtime,
                   is_short_click, click_timer, drains, now, button,
                   dispatched, cycle, press_time, release_time, cw_log>>
    /\ UNCHANGED setupVars

\* ------------------------------------------------------- long_click_event
\* The reactor fires click_timer once its waketime is reached; the value
\* returned by the callback is the timer's next waketime.
long_click_event_keep_short(eventtime) ==
    /\ phase = "ready" /\ TimerDue /\ CpuFree
    /\ is_short_click' = is_short_click
    /\ key_event("long_click")
    /\ click_timer' = NEVER
    /\ cycle' = Append(cycle, "long_click")
    /\ UNCHANGED <<encoder_fast_rate, last_encoder_cw_eventtime,
                   last_encoder_ccw_eventtime, drains, now, button, nevents,
                   dispatched, press_time, release_time, cw_log, ccw_log>>
    /\ UNCHANGED setupVars

long_click_event_double(eventtime) ==
    /\ phase = "ready" /\ TimerDue /\ CpuFree
    /\ is_short_click' = FALSE
    /\ key_event("double_click")
    /\ click_timer' = NEVER
    /\ cycle' = Append(cycle, "double_click")
    /\ UNCHANGED <<encoder_fast_rate, last_encoder_cw_eventtime,
                   last_encoder_ccw_eventtime, drains, now, button, nevents,
                   dispatched, press_time, release_time, cw_log, ccw_log>>
    /\ UNCHANGED setupVars

long_click_event(eventtime) ==
    /\ phase = "ready" /\ TimerDue /\ CpuFree
    /\ is_short_click' = FALSE
    /\ key_event("long_click")
    /\ click_timer' = NEVER
    /\ cycle' = Append(cycle, "long_click")
    /\ UNCHANGED <<encoder_fast_rate, last_encoder_cw_eventtime,
                   last_encoder_ccw_eventtime, drains, now, button, nevents,
                   dispatched, press_time, release_time, cw_log, ccw_log>>
    /\ UNCHANGED setupVars

\* --------------------------------------------------------- click_callback
\* The driver reports a pin only when its level changes, after any timer
\* that was due at the edge's timestamp has run.
ClickEdge(eventtime, state) ==
    /\ HasCallback("buttons")
    /\ CpuFree /\ ~TimerDue /\ nevents < MaxEvents
    /\ button # state
    /\ button' = state
    /\ nevents' = nevents + 1
    /\ press_time' = IF state = 1 THEN eventtime ELSE press_time
    /\ release_time' = IF state = 1 THEN release_time ELSE eventtime
    /\ UNCHANGED <<encoder_fast_rate, last_encoder_cw_eventtime,
                   last_encoder_ccw_eventtime, drains, now, dispatched,
                   cw_log, ccw_log>>
    /\ UNCHANGED setupVars

click_callback_no_cancel(eventtime, state) ==
    /\ ClickEdge(eventtime, state)
    /\ IF state = 1
       THEN /\ is_short_click' = TRUE
            /\ click_timer' = eventtime + LONG_CLICK_DURATION
            /\ key' = "none"
            /\ cycle' = <<>>
            /\ UNCHANGED queueVars
       ELSE IF is_short_click
       THEN /\ key_event("click")
            /\ cycle' = Append(cycle, "click")
            /\ UNCHANGED <<is_short_click, click_timer>>
       ELSE /\ key' = "none"
            /\ UNCHANGED <<is_short_click, click_timer, cycle>>
            /\ UNCHANGED queueVars

click_callback_any_release(eventtime, state) ==
    /\ ClickEdge(eventtime, state)
    /\ IF state = 1
       THEN /\ is_short_click' = TRUE
            /\ click_timer' = eventtime + LONG_CLICK_DURATION
            /\ key' = "none"
            /\ cycle' = <<>>
            /\ UNCHANGED queueVars
       ELSE /\ click_timer' = NEVER
            /\ key_event("click")
            /\ cycle' = Append(cycle, "click")
            /\ UNCHANGED is_short_click

\* A release that is not a click runs the release script.
click_callback_release_script(eventtime, state) ==
    /\ ClickEdge(eventtime, state)
    /\ IF state = 1
       THEN /\ is_short_click' = TRUE
            /\ click_timer' = eventtime + LONG_CLICK_DURATION
            /\ key' = "none"
            /\ cycle' = <<>>
            /\ UNCHANGED queueVars
       ELSE IF is_short_click
       THEN /\ click_timer' = NEVER
            /\ key_event("click")
            /\ cycle' = Append(cycle, "click")
            /\ UNCHANGED is_short_click
       ELSE /\ key' = "release"
            /\ queue_gcode(scripts["release_template"])
            /\ UNCHANGED <<is_short_click, click_timer, cycle>>

click_callback(eventtime, state) ==
    /\ ClickEdge(eventtime, state)
    /\ IF state = 1
       THEN /\ is_short_click' = TRUE
            /\ click_timer' = eventtime + LONG_CLICK_DURATION
            /\ key' = "none"
            /\ cycle' = <<>>
            /\ UNCHANGED queueVars
       ELSE IF is_short_click
       THEN /\ click_timer' = NEVER
            /\ key_event("click")
            /\ cycle' = Append(cycle, "click")
            /\ UNCHANGED is_short_click
       ELSE /\ key' = "none"
            /\ UNCHANGED <<is_short_click, click_timer, cycle>>
            /\ UNCHANGED queueVars

\* -------------------------------------------------------- dispatch_gcode
\* The reactor starts a registered dispatch_gcode callback in a greenlet.
dispatch_gcode_start ==
    /\ pending > 0 /\ CpuFree
    /\ pending' = pending - 1
    /\ drains' = Append(drains, [pc |-> "while", job |-> 0])
    /\ key' = "none"
    /\ UNCHANGED <<gcode_queue, enqueued, dispatched, now, button, nevents>>
    /\ UNCHANGED classifierVars
    /\ UNCHANGED ghostVars
    /\ UNCHANGED setupVars

\* self.gcode_queue.pop(0)
pop_last(queue) == SubSeq(queue, 1, Len(queue) - 1)

pop_0(queue) == Tail(queue)

\* One pass of `while self.gcode_queue:` up to the call of run_script:
\* script.render() either raises (caught, logged, entry popped) or yields
\* the text handed to gcode.run_script, which may suspend the greenlet.
dispatch_gcode_while(i) ==
    /\ i \in DOMAIN drains /\ drains[i].pc = "while"
    /\ key' = "none"
    /\ IF gcode_queue = <<>>
       THEN /\ drains' = RemoveAt(drains, i)
            /\ UNCHANGED <<gcode_queue, dispatched>>
       ELSE \E rendered \in BOOLEAN :
               IF rendered
               THEN /\ dispatched' = Append(dispatched,
                           [script |-> gcode_queue[1], result |-> "running"])
                    /\ drains' = [drains EXCEPT ![i] =
                           [pc |-> "run_script", job |-> Len(dispatched) + 1]]
                    /\ UNCHANGED gcode_queue
               ELSE /\ dispatched' = Append(dispatched,
                           [script |-> gcode_queue[1], result |-> "render_error"])
                    /\ gcode_queue' = pop_0(gcode_queue)
                    /\ UNCHANGED drains
    /\ UNCHANGED <<pending, enqueued, now, button, nevents>>
    /\ UNCHANGED classifierVars
    /\ UNCHANGED ghostVars
    /\ UNCHANGED setupVars

\* What follows the return of run_script: `except Exception` swallows a
\* failure, then the head is popped and the loop goes on.
after_run_script_uncaught(i, raised) ==
    IF raised \/ gcode_queue = <<>>
    THEN /\ drains' = RemoveAt(drains, i)
         /\ UNCHANGED gcode_queue
    ELSE /\ gcode_queue' = pop_0(gcode_queue)
         /\ drains' = [drains EXCEPT ![i] = [pc |-> "while", job |-> 0]]

after_run_script(i, raised) ==
    IF gcode_queue = <<>>
    THEN \* pop(0) on an empty list raises IndexError out of the callback
         /\ drains' = RemoveAt(drains, i)
         /\ UNCHANGED gcode_queue
    ELSE /\ gcode_queue' = pop_0(gcode_queue)
         /\ drains' = [drains EXCEPT ![i] = [pc |-> "while", job |-> 0]]

\* gcode.run_script returns or raises.
run_script_return(i) ==
    /\ i \in DOMAIN drains /\ drains[i].pc = "run_script"
    /\ CpuFree
    /\ key' = "none"
    /\ \E raised \in BOOLEAN :
          /\ dispatched' = [dispatched EXCEPT ![drains[i].job].result =
                               IF raised THEN "exec_error" ELSE "ok"]
          /\ after_run_script(i, raised)
    /\ UNCHANGED <<pending, enqueued, now, button, nevents>>
    /\ UNCHANGED classifierVars
    /\ UNCHANGED ghostVars
    /\ UNCHANGED setupVars

\* ------------------------------------------------------------------ time
Tick ==
    /\ phase = "ready" /\ CpuFree /\ ~TimerDue
    /\ now < MaxTime
    /\ now' = now + 1
    /\ key' = "none"
    /\ UNCHANGED <<drains, button, nevents, dispatched>>
    /\ UNCHANGED classifierVars
    /\ UNCHANGED queueVars
    /\ UNCHANGED ghostVars
    /\ UNCHANGED setupVars

Next ==
    \/ GCodeEncoder_init
    \/ encoder_cw_callback(now)
    \/ encoder_ccw_callback(now)
    \/ long_click_event(now)
    \/ \E state \in {0, 1} : click_callback(now, state)
    \/ dispatch_gcode_start
    \/ \E i \in DOMAIN drains : dispatch_gcode_while(i)
    \/ \E i \in DOMAIN drains : run_script_return(i)
    \/ Tick

Spec == Init /\ [][Next]_vars

\* The reactor runs every registered callback, resumes every greenlet whose
\* run_script has returned, and the executor always returns or raises.
DrainFairness ==
    /\ WF_vars(dispatch_gcode_start)
    /\ WF_vars(\E i \in DOMAIN drains : dispatch_gcode_while(i))
    /\ WF_vars(\E i \in DOMAIN drains : run_script_return(i))

\* The configurations the liveness check starts from: encoder and button
\* with some scripts, and button alone with every script.
FairConfigs ==
    { Cfg(Pins(<<"a", ",", " ", "b">>), TRUE, 2,
          {"click_gcode", "up_gcode", "fast_down_gcode"}),
      Cfg(NoPins, TRUE, 1, GcodeOptions) }

FairInit == Init /\ config \in FairConfigs

FairSpec == FairInit /\ [][Next]_vars /\ DrainFairness

\* ===================================================== dispatch queue claims
Scripts(log) == [i \in DOMAIN log |-> log[i].script]

Failed(entry) == entry.result \in {"render_error", "exec_error"}

\* Entries whose pass through dispatch_gcode is over (popped from the queue).
Completed(log) == SelectSeq(log, LAMBDA e : e.result # "running")

\* The scripts handed to gcode.run_script, in call order.
Submitted == Scripts(SelectSeq(dispatched, LAMBDA e : e.result # "render_error"))

IsPrefix(a, b) == Len(a) <= Len(b) /\ SubSeq(b, 1, Len(a)) = a

NoDrain == pending = 0 /\ drains = <<>>

\* C1 as stated: the scripts submitted to gcode.run_script are the enqueued
\* scripts in enqueue order, each exactly once, none dropped: a prefix of
\* them while a drain is under way, all of them once no drain is left.
C1_SubmittedEqualsEnqueued ==
    /\ IsPrefix(Submitted, enqueued)
    /\ (NoDrain => Submitted = enqueued)

\* C1 amended: every enqueued entry is taken up by dispatch_gcode exactly
\* once and in enqueue order (the entries taken up are a prefix of the
\* enqueued ones, and the finished ones followed by the queue are exactly
\* the enqueued ones), and once no drain is left all of them were taken up;
\* an entry reaches gcode.run_script unless its own render raised.
C1_FifoDispatch ==
    /\ Len(dispatched) <= Len(enqueued)
    /\ \A i \in DOMAIN dispatched : dispatched[i].script = enqueued[i]
    /\ Scripts(Completed(dispatched)) \o gcode_queue = enqueued
    /\ (NoDrain => Len(dispatched) = Len(enqueued))

C1_Witness ==
    /\ NoDrain
    /\ Len(enqueued) >= 3
    /\ \E i \in DOMAIN dispatched : dispatched[i].result = "render_error"
    /\ \E i \in DOMAIN dispatched : dispatched[i].result = "ok"

\* C2: at most one drain task is scheduled or running in any state, and a
\* drain callback is registered only by a step that found the queue empty.
C2_SingleDrain ==
    /\ [](pending + Len(drains) <= 1)
    /\ [][pending' > pending => gcode_queue = <<>>]_vars

\* An enqueue arrived while the drain was inside run_script for the head.
C2_Witness ==
    /\ \E i \in DOMAIN drains : drains[i].pc = "run_script"
    /\ Len(gcode_queue) >= 2
    /\ pending = 0

\* C3 as stated: once the drain is over, every entry enqueued behind a
\* failing script has been submitted to the executor.
C3_AllBehindSubmitted ==
    NoDrain =>
        \A i \in DOMAIN dispatched : Failed(dispatched[i]) =>
            /\ Len(dispatched) = Len(enqueued)
            /\ \A j \in (i + 1)..Len(dispatched) :
                   dispatched[j].result # "render_error"

\* C3 amended: a failing entry is removed without a retry and the drain goes
\* on: the entries enqueued behind it are exactly the ones finished since,
\* in order, followed by the ones still queued, and a drain is scheduled or
\* running as long as the queue holds any; each of them is submitted to the
\* executor unless its own render fails.
C3_FailureSkipped ==
    \A i \in DOMAIN dispatched : Failed(dispatched[i]) =>
        /\ Len(dispatched) <= Len(enqueued)
        /\ SubSeq(enqueued, i + 1, Len(enqueued)) =
               Scripts(Completed(SubSeq(dispatched, i + 1, Len(dispatched))))
               \o gcode_queue
        /\ (gcode_queue # <<>> => pending + Len(drains) >= 1)
        /\ (NoDrain => gcode_queue = <<>>)

C3_Witness ==
    \E i \in DOMAIN dispatched :
        /\ dispatched[i].result = "exec_error"
        /\ i < Len(dispatched)
        /\ dispatched[i + 1].result = "ok"

\* ==================================================== click classifier claims
Released == button = 0 /\ press_time >= 0

\* C4: a press released less than LONG_CLICK_DURATION later yields exactly
\* one click and no long_click, and leaves the long-press timer cancelled.
C4_ShortPressClick ==
    (Released /\ release_time - press_time < LONG_CLICK_DURATION)
        => (cycle = <<"click">> /\ click_timer = NEVER)

\* The time at which the cancelled timer would have fired has passed.
C4_Witness ==
    /\ Released
    /\ release_time - press_time < LONG_CLICK_DURATION
    /\ now >= press_time + LONG_CLICK_DURATION
    /\ cycle = <<"click">>

\* C5: a press held for LONG_CLICK_DURATION or more yields exactly one
\* long_click, emitted by the timer, which is then disarmed; the release
\* that follows emits nothing.
C5_LongPress ==
    /\ (button = 1 /\ now - press_time >= LONG_CLICK_DURATION /\ ~TimerDue)
           => (cycle = <<"long_click">> /\ click_timer = NEVER)
    /\ (Released /\ release_time - press_time >= LONG_CLICK_DURATION)
           => (cycle = <<"long_click">> /\ click_timer = NEVER)

C5_Witness ==
    /\ Released
    /\ release_time - press_time >= LONG_CLICK_DURATION
    /\ cycle = <<"long_click">>
    /\ key = "none"

\* C6: between one press edge and the next at most one of click and
\* long_click is emitted, and none before the first press.
C6_OneTerminalPerCycle ==
    /\ Len(cycle) <= 1
    /\ (press_time < 0 => cycle = <<>>)

\* A second press/release cycle that has ended with its one event.
C6_Witness ==
    /\ Released
    /\ nevents >= 3
    /\ Len(cycle) = 1

\* ======================================================= rate detector claims
Gap(log) == log[2] - log[1]

\* C7 as stated: when the gap to the previous detent of the direction (if
\* there is one) exceeds encoder_fast_rate, the detent is never fast.
C7_SlowNeverFast ==
    /\ (key \in {"up", "fast_up"}
          /\ (Len(cw_log) = 2 => Gap(cw_log) > encoder_fast_rate))
           => key = "up"
    /\ (key \in {"down", "fast_down"}
          /\ (Len(ccw_log) = 2 => Gap(ccw_log) > encoder_fast_rate))
           => key = "down"

\* C7 amended: a detent that comes more than encoder_fast_rate after the
\* previous one of its direction is the non-fast variant, and so is the
\* first detent of a direction when its own timestamp exceeds
\* encoder_fast_rate (it is compared with the initial timestamp 0).
C7_SlowAfterFirst ==
    /\ (key \in {"up", "fast_up"} /\ Len(cw_log) = 2
          /\ Gap(cw_log) > encoder_fast_rate) => key = "up"
    /\ (key \in {"up", "fast_up"} /\ Len(cw_log) = 1
          /\ cw_log[1] > encoder_fast_rate) => key = "up"
    /\ (key \in {"down", "fast_down"} /\ Len(ccw_log) = 2
          /\ Gap(ccw_log) > encoder_fast_rate) => key = "down"
    /\ (key \in {"down", "fast_down"} /\ Len(ccw_log) = 1
          /\ ccw_log[1] > encoder_fast_rate) => key = "down"

C7_Witness ==
    /\ key = "up"
    /\ Len(cw_log) = 2
    /\ Gap(cw_log) > encoder_fast_rate

\* C8: a detent that comes at most encoder_fast_rate after the previous one
\* of its direction (boundary included) is the fast variant.
C8_QuickIsFast ==
    /\ (key \in {"up", "fast_up"} /\ Len(cw_log) = 2
          /\ Gap(cw_log) <= encoder_fast_rate) => key = "fast_up"
    /\ (key \in {"down", "fast_down"} /\ Len(ccw_log) = 2
          /\ Gap(ccw_log) <= encoder_fast_rate) => key = "fast_down"

\* A third detent exactly encoder_fast_rate after the second.
C8_Witness ==
    /\ key = "fast_down"
    /\ nevents = 3
    /\ button = 0 /\ press_time < 0 /\ cw_log = <<>>
    /\ Gap(ccw_log) = encoder_fast_rate

\* ============================================================ router claims
\* C9: an event whose configured template is empty changes nothing in the
\* queue: no entry appended, no drain registered, nothing handed to the
\* executor.
C9_EmptyTemplateNoop ==
    [][(key' # "none" /\ scripts[key'] = "")
          => UNCHANGED <<gcode_queue, pending, enqueued, drains, dispatched>>]_vars

\* An event with an empty template after one whose script was queued.
C9_Witness ==
    /\ key = "down"
    /\ scripts[key] = ""
    /\ enqueued # <<>>

\* ============================================================ __init__ claims
TokenCount(text) == 1 + Cardinality({i \in 1..Len(text) : text[i] = ","})

\* C10: with encoder_pins present but not of two comma-separated tokens
\* construction ends in a configuration error with no callback registered,
\* so no event is classified or enqueued; with encoder_pins absent
\* construction succeeds and no rotary encoder is registered.
C10_BadPinsFailFast ==
    /\ (phase # "config" /\ config.encoder_pins.set
          /\ TokenCount(config.encoder_pins.value) # 2)
           => /\ phase = "config_error"
              /\ registered = {}
              /\ nevents = 0 /\ key = "none" /\ cycle = <<>>
              /\ enqueued = <<>> /\ pending = 0
    /\ (phase # "config" /\ ~config.encoder_pins.set)
           => (phase = "ready" /\ ~HasCallback("rotary_encoder"))

C10_Witness ==
    /\ phase = "config_error"
    /\ config.click_pin
    /\ TokenCount(config.encoder_pins.value) = 3

\* ============================================================ drain liveness
\* C11 as stated, in the form a finished drain shows: once no drain is left
\* every enqueued script has been handed to gcode.run_script.
C11_AllSubmittedAtRest ==
    NoDrain => (gcode_queue = <<>> /\ Len(Submitted) = Len(enqueued))

\* C11 amended: under fair scheduling every enqueued script is eventually
\* taken up by dispatch_gcode (and submitted unless its render raises); once
\* enqueues stop the drain ends with the queue empty and no drain task
\* left; and a non-empty queue always has a drain scheduled or running.
C11_DrainCompletes ==
    /\ [](gcode_queue # <<>> => pending + Len(drains) >= 1)
    /\ <>[](NoDrain /\ gcode_queue = <<>>
              /\ Len(dispatched) = Len(enqueued))

\* A drain that ended after taking up three entries, one enqueued while the
\* executor was busy with an earlier one.
C11_Witness ==
    /\ NoDrain /\ gcode_queue = <<>>
    /\ Len(dispatched) = 3
    /\ nevents = 3
    /\ \A i \in DOMAIN dispatched : dispatched[i].result = "ok"

\* ================================================ classifier state claims
\* C12: after a terminal classification (a click on release, a long_click
\* on the timer) and until the next press the pending flag is false.
C12_FlagResetAfterTerminal == cycle # <<>> => ~is_short_click

\* The previous timestamp a detent of a direction is compared with.
Previous(log) == IF Len(log) = 2 THEN log[1] ELSE 0

LastOf(log) == IF log = <<>> THEN 0 ELSE log[Len(log)]

\* C13: each direction keeps its own last timestamp, which is the time of
\* the latest detent of that direction whatever the other direction did,
\* and a detent is fast exactly when it comes at most encoder_fast_rate
\* after the previous detent of its own direction.
C13_DirectionsIndependent ==
    /\ phase = "ready" =>
          /\ last_encoder_cw_eventtime = LastOf(cw_log)
          /\ last_encoder_ccw_eventtime = LastOf(ccw_log)
    /\ key \in {"up", "fast_up"} =>
          (key = "fast_up" <=>
              LastOf(cw_log) - Previous(cw_log) <= encoder_fast_rate)
    /\ key \in {"down", "fast_down"} =>
          (key = "fast_down" <=>
              LastOf(ccw_log) - Previous(ccw_log) <= encoder_fast_rate)

\* Two clockwise detents with a counterclockwise one strictly between them.
C13_Witness ==
    /\ key \in {"up", "fast_up"}
    /\ Len(cw_log) = 2 /\ ccw_log # <<>>
    /\ cw_log[1] < LastOf(ccw_log)
    /\ LastOf(ccw_log) < cw_log[2]

Range(log) == {log[i] : i \in DOMAIN log}

EmittedKeys == {"click", "long_click", "up", "fast_up", "down", "fast_down"}

\* C14: double_click never reaches key_event and the double_click_gcode
\* template is never queued or executed; only click, long_click, up,
\* fast_up, down and fast_down are ever emitted.
C14_NoDoubleClick ==
    /\ key \in EmittedKeys \cup {"none"}
    /\ \A i \in DOMAIN cycle : cycle[i] \in {"click", "long_click"}
    /\ "double_click_gcode" \notin Range(enqueued)
    /\ "double_click_gcode" \notin Range(gcode_queue)
    /\ "double_click_gcode" \notin Range(Scripts(dispatched))

\* A press right after a click, with double_click_gcode configured.
C14_Witness ==
    /\ scripts["double_click"] = "double_click_gcode"
    /\ nevents = 3 /\ button = 1
    /\ press_time = release_time
    /\ "click_gcode" \in Range(enqueued)

\* ============================================================ render claims
\* C15: the queue holds unrendered templates and an entry is rendered only
\* by dispatch_gcode, right before its own run_script call and after every
\* earlier entry is finished: the only entry in flight is the latest one
\* taken up, a drain inside run_script holds it, and an event that has just
\* queued a template has not rendered it.
C15_RenderAtDrainTime ==
    /\ \A i \in DOMAIN dispatched :
          i < Len(dispatched) => dispatched[i].result # "running"
    /\ \A i \in DOMAIN dispatched :
          dispatched[i].result = "running" =>
              \E d \in DOMAIN drains :
                  drains[d].pc = "run_script" /\ drains[d].job = i
    /\ Range(gcode_queue) \subseteq GcodeOptions
    /\ (key # "none" /\ scripts[key] # "") =>
          /\ Len(dispatched) < Len(enqueued)
          /\ gcode_queue # <<>>
          /\ gcode_queue[Len(gcode_queue)] = scripts[key]

\* An event queues a third template while the second is being executed.
C15_Witness ==
    /\ key # "none" /\ Len(enqueued) = 3
    /\ Len(dispatched) = 2
    /\ dispatched[1].result \in {"ok", "exec_error"}
    /\ dispatched[2].result = "running"

\* C16: the long-press timer is armed only while the pending flag is set
\* and the latest edge is a press (for press time + LONG_CLICK_DURATION),
\* and a long_click is only ever the first event after a press edge.
C16_NoStaleTimer ==
    /\ click_timer # NEVER =>
          /\ is_short_click /\ button = 1
          /\ click_timer = press_time + LONG_CLICK_DURATION
    /\ \A i \in DOMAIN cycle : cycle[i] = "long_click" => i = 1

\* After a click the time at which the timer was due passes with the flag
\* still set and the timer disarmed.
C16_Witness ==
    /\ Released /\ cycle = <<"click">>
    /\ is_short_click /\ click_timer = NEVER
    /\ now >= press_time + LONG_CLICK_DURATION

\* C17: the executor is reached only from dispatch_gcode: a step that takes
\* up an entry or records a script's outcome is no driver or timer callback,
\* changes no classifier state, and a failure leaves the drain running.
C17_FailuresContained ==
    [][dispatched' # dispatched =>
          /\ key' = "none" /\ nevents' = nevents
          /\ UNCHANGED classifierVars
          /\ UNCHANGED <<cycle, button, enqueued, pending>>
          /\ (Len(dispatched') > Len(dispatched)
                => \E d \in DOMAIN drains : drains[d].pc = "while")
          /\ ((\E i \in DOMAIN dispatched' :
                    Failed(dispatched'[i])
                    /\ (i \in DOMAIN dispatched => ~Failed(dispatched[i])))
                => Len(drains') = Len(drains))]_vars

\* A script fails while a press is pending.
C17_Witness ==
    /\ \E i \in DOMAIN dispatched : dispatched[i].result = "exec_error"
    /\ \E i \in DOMAIN dispatched : dispatched[i].result = "render_error"
    /\ is_short_click /\ click_timer # NEVER /\ button = 1

\* ===================================================== first detent, routing
\* C18: the first detent of a direction is fast exactly when its own
\* timestamp is at most encoder_fast_rate.
C18_FirstDetent ==
    /\ (key \in {"up", "fast_up"} /\ Len(cw_log) = 1) =>
          (key = "fast_up" <=> cw_log[1] <= encoder_fast_rate)
    /\ (key \in {"down", "fast_down"} /\ Len(ccw_log) = 1) =>
          (key = "fast_down" <=> ccw_log[1] <= encoder_fast_rate)

\* A first clockwise detent exactly at the threshold, after time 0.
C18_Witness ==
    /\ key = "fast_up" /\ Len(cw_log) = 1
    /\ cw_log[1] = encoder_fast_rate
    /\ ccw_log = <<>>

\* The option an event name is configured by.
ConfiguredOption(k) ==
    CASE k = "click" -> "click_gcode"
      [] k = "long_click" -> "long_click_gcode"
      [] k = "up" -> "up_gcode"
      [] k = "fast_up" -> "fast_up_gcode"
      [] k = "down" -> "down_gcode"
      [] k = "fast_down" -> "fast_down_gcode"
      [] OTHER -> "no such event"

\* C19: an event whose template is configured appends exactly one entry to
\* the queue, the template configured for that same event name.
C19_EventRoutesOwnTemplate ==
    [][(key' # "none" /\ ConfiguredOption(key') \in config.options) =>
          /\ gcode_queue' = Append(gcode_queue, ConfiguredOption(key'))
          /\ enqueued' = Append(enqueued, ConfiguredOption(key'))]_vars

\* A long_click queued behind a click.
C19_Witness ==
    /\ key = "long_click"
    /\ Len(enqueued) = 2
    /\ enqueued[1] = "click_gcode" /\ enqueued[2] = "long_click_gcode"

\* C20: no release event is ever emitted and the release_gcode template,
\* kept under the key release_template, is never queued or executed.
C20_ReleaseScriptUnreachable ==
    /\ key \notin {"release", "release_template"}
    /\ "release_gcode" \notin Range(enqueued)
    /\ "release_gcode" \notin Range(gcode_queue)
    /\ "release_gcode" \notin Range(Scripts(dispatched))
    /\ "release" \notin DOMAIN scripts
    /\ phase = "ready" =>
          scripts["release_template"] =
              (IF "release_gcode" \in config.options THEN "release_gcode" ELSE "")

\* The release after a long press, with release_gcode configured.
C20_Witness ==
    /\ Released /\ cycle = <<"long_click">>
    /\ scripts["release_template"] = "release_gcode"
    /\ key = "none" /\ gcode_queue = <<>> /\ NoDrain
    /\ enqueued = <<"long_click_gcode">>

====
